---- MODULE Spec2Model ----
(***************************************************************************)
(* Model of NYTimesSource (src/loaderPlugin.py): the generator             *)
(* getDataBatch with its helpers getn and flatten.                         *)
(*                                                                         *)
(* A Python dict is a sequence of <<key, value>> items in insertion order  *)
(* with pairwise distinct keys; a value is a leaf [leaf |-> s] or a nested *)
(* dict [map |-> items].  Keys and leaf values are strings.  A deque is a  *)
(* sequence whose right end is the end of the sequence.                    *)
(***************************************************************************)
EXTENDS Integers, Sequences, FiniteSets, TLC

\* ------------------------------------------------------------------ bounds
\* Article ids the source can return: 1..MaxId.
MaxId == 3
\* Largest number of documents in one response page.
MaxDocs == 3
\* batch_size ranges over 1..MaxBatch.
MaxBatch == 2
\* Largest number of consecutive fault responses.
MaxFaults == 2
\* Spec follows runs of at most MaxPage documents-bearing fetches.
MaxPage == 3

\* --------------------------------------------------------- program constants
\* `if page_num >= 100`
PageCeiling == 100
\* `['pub_date'][:10]`
DatePrefixLen == 10
\* `time.sleep(12)` in the fault branch
FaultDelay == 12
\* mutant: the loop's cooldown is twice the fault delay
CooldownDoubled == 2 * FaultDelay

\* `time.sleep(12)` at the end of the loop body
Cooldown == 12
\* `current_date_lower_bound = '0000-01-01'`
InitialWatermark == "0000-01-01"

VARIABLES
    batch_size,                \* the argument of getDataBatch
    current_date_lower_bound,  \* the watermark
    page_num,                  \* the page cursor
    article_id_set,            \* ids seen so far
    q,                         \* the deque of flattened documents not yet yielded
    response_json,             \* the last decoded response
    pc,                        \* "fetching" | "yielded" | "done" | "raised"
    batches,                   \* history: the batches yielded, in order
    arrival,                   \* history: the ids in the order they were appended to q
    returned,                  \* history: the ids the source has returned in documents
    lastRequest,               \* history: <<fq date, page>> of the last request issued
    faults,                    \* history: consecutive faults before/at the last response
    maxAdded,                  \* history: most records appended to q in one loop pass
    docFetches,                \* history: documents-bearing fetches so far, mod PageCeiling
    sleeps,                    \* history: the delays slept since the last request
    d_in,                      \* the mapping a direct call of flatten is given
    flat,                      \* what that call returned
    fpc,                       \* "ready" | "flattened"
    archive                    \* the documents the source holds, oldest first

vars == <<batch_size, current_date_lower_bound, page_num, article_id_set, q,
          response_json, pc, batches, arrival, returned, lastRequest, faults,
          maxAdded, docFetches, sleeps, d_in, flat, fpc, archive>>

\* the state of a direct call of flatten
fvars == <<d_in, flat, fpc>>
\* the state of a run of getDataBatch
gvars == <<batch_size, current_date_lower_bound, page_num, article_id_set, q,
           response_json, pc, batches, arrival, returned, lastRequest, faults,
           maxAdded, docFetches, sleeps>>

\* ------------------------------------------------------------------ dicts
Leaf(s) == [leaf |-> s]
Node(m) == [map |-> m]
IsMapping(v) == DOMAIN v = {"map"}

Keys(d) == {d[i][1] : i \in 1..Len(d)}

\* d[k] of a dict d that has the key k
Get(d, k) == d[CHOOSE i \in 1..Len(d) : d[i][1] = k][2]

\* dict(items): one entry per key, at the position of the key's first item, with
\* the value of its last item
RECURSIVE DictOf(_)
DictOf(items) ==
    IF items = <<>> THEN <<>>
    ELSE LET n    == Len(items)
             init == DictOf(SubSeq(items, 1, n - 1))
             last == items[n]
         IN  IF last[1] \in Keys(init)
             THEN [i \in 1..Len(init) |->
                      IF init[i][1] = last[1] THEN last ELSE init[i]]
             ELSE Append(init, last)

\* flatten(d, parent_key)
RECURSIVE flatten(_, _)
RECURSIVE FlattenItems(_, _)
FlattenItems(d, parent_key) ==
    IF d = <<>> THEN <<>>
    ELSE LET k       == d[1][1]
             v       == d[1][2]
             new_key == IF parent_key # "" THEN parent_key \o "." \o k ELSE k
             here    == IF IsMapping(v) THEN flatten(v.map, new_key)
                        ELSE << <<new_key, v>> >>
         IN  here \o FlattenItems(Tail(d), parent_key)

flatten(d, parent_key) == DictOf(FlattenItems(d, parent_key))

\* ------------------------------------------------------------- the source
ArticleId(i) == "nyt://article/" \o ToString(i)

\* every article has one publication date; the articles fall on two days
PubDate(i) ==
    IF i % 2 = 1 THEN "2021-08-01T09:30:00+0000" ELSE "2021-08-02T23:59:59+0000"

\* one raw document of the source
Doc(i) ==
    << <<"_id", Leaf(ArticleId(i))>>,
       <<"pub_date", Leaf(PubDate(i))>>,
       <<"headline", Node(<< <<"main", Leaf("Headline " \o ToString(i))>> >>)>> >>

RECURSIVE SeqsUpTo(_, _)
SeqsUpTo(S, n) ==
    IF n = 0 THEN {<<>>}
    ELSE LET shorter == SeqsUpTo(S, n - 1)
         IN  shorter \cup {Append(s, x) : s \in {t \in shorter : Len(t) = n - 1}, x \in S}

\* a response page, as the numbers of the articles it lists; a page lists an
\* article once, two pages may list the same article
Pages ==
    {p \in SeqsUpTo(1..MaxId, MaxDocs) :
        \A i, j \in 1..Len(p) : p[i] = p[j] => i = j}
Docs == [i \in 1..MaxId |-> Doc(i)]
DocsOf(p) == [j \in 1..Len(p) |-> Docs[p[j]]]

\* The code compares ids only for equality, so the source numbers its articles
\* in the order in which it first returns them (n articles returned so far);
\* their publication days alternate.
InOrder(p, n) ==
    \A j \in 1..Len(p) :
        \/ p[j] <= n + 1
        \/ \E i \in 1..(j - 1) : p[i] = p[j] - 1

NoResponse    == [fault |-> FALSE, status |-> "NONE",  hits |-> 0, docs |-> <<>>]
FaultResponse == [fault |-> TRUE,  status |-> "NONE",  hits |-> 0, docs |-> <<>>]
ErrorResponse == [fault |-> FALSE, status |-> "ERROR", hits |-> 0, docs |-> <<>>]
ZeroResponse  == [fault |-> FALSE, status |-> "OK",    hits |-> 0, docs |-> <<>>]
\* a response with hits > 0; the code reads hits only to compare it with 0
PageResponse(docs, hits) ==
    [fault |-> FALSE, status |-> "OK", hits |-> hits, docs |-> docs]
DocsResponse(docs) == PageResponse(docs, IF docs = <<>> THEN 1 ELSE Len(docs))

IdOf(doc) == Get(doc, "_id").leaf

\* the order of the characters of dates and timestamps, as in ASCII
CharOrder == "+-0123456789:T"
CharRank(c) == CHOOSE i \in 1..Len(CharOrder) : SubSeq(CharOrder, i, i) = c

\* a <= b for strings, character by character: the order in which the fq filter
\* `pub_date:>=` compares ISO dates
LexLeq(a, b) ==
    LET n     == IF Len(a) < Len(b) THEN Len(a) ELSE Len(b)
        differ == {i \in 1..n : SubSeq(a, i, i) # SubSeq(b, i, i)}
    IN  IF differ = {} THEN Len(a) <= Len(b)
        ELSE \E i \in differ :
                /\ \A j \in differ : i <= j
                /\ CharRank(SubSeq(a, i, i)) < CharRank(SubSeq(b, i, i))

\* every document of response r has pub_date >= the watermark w of the request
HonoursFilter(r, w) ==
    \A j \in 1..Len(r.docs) : LexLeq(w, Get(r.docs[j], "pub_date").leaf)

\* the request built at the top of the loop: the fq date and the page
Request == <<current_date_lower_bound, page_num>>

\* ------------------------------------------------------------------ getn
\* deque.pop() removes and returns the right end
RECURSIVE PopN(_, _)
PopN(dq, n) ==
    IF n = 0 THEN <<>>
    ELSE <<dq[Len(dq)]>> \o PopN(SubSeq(dq, 1, Len(dq) - 1), n - 1)

\* mutant: the loop of getn stops one item early
getnStopsEarly(dq, n) == PopN(dq, n - 1)
\* the list getn(q, n) returns; n >= 1 and at least n items in dq
getn(dq, n) == PopN(dq, n)
\* mutant: getn reads the items without removing them
AfterGetnKeepsAll(dq, n) == dq
\* the deque getn leaves behind
AfterGetn(dq, n) == SubSeq(dq, 1, Len(dq) - n)

\* ------------------------------------------------------------ getDataBatch
\* mutant: an unseen document is appended but its id is not added to the seen set
RECURSIVE DedupForgetsSeen(_, _, _)
DedupForgetsSeen(docs, seen, dq) ==
    IF docs = <<>> THEN [seen |-> seen, q |-> dq]
    ELSE LET doc == docs[1]
         IN  IF IdOf(doc) \notin seen
             THEN DedupForgetsSeen(Tail(docs), seen, Append(dq, flatten(doc, "")))
             ELSE DedupForgetsSeen(Tail(docs), seen, dq)

\* mutant: every document is appended, seen or not
RECURSIVE DedupNoCheck(_, _, _)
DedupNoCheck(docs, seen, dq) ==
    IF docs = <<>> THEN [seen |-> seen, q |-> dq]
    ELSE DedupNoCheck(Tail(docs), seen \cup {IdOf(docs[1])},
                      Append(dq, flatten(docs[1], "")))

\* `for doc in docs: if doc['_id'] not in article_id_set: add; q.append(flatten(doc))`
RECURSIVE Dedup(_, _, _)
Dedup(docs, seen, dq) ==
    IF docs = <<>> THEN [seen |-> seen, q |-> dq]
    ELSE LET doc == docs[1]
         IN  IF IdOf(doc) \notin seen
             THEN Dedup(Tail(docs), seen \cup {IdOf(doc)}, Append(dq, flatten(doc, "")))
             ELSE Dedup(Tail(docs), seen, dq)

\* mutant: `if len(q) > batch_size`
ShouldYieldStrict(dq, n) == Len(dq) > n
\* `if len(q) >= batch_size`
ShouldYield(dq, n) == Len(dq) >= n

\* mutant: `if page_num > 100`
AtCeilingLate(p) == p > PageCeiling
\* `if page_num >= 100`
AtCeiling(p) == p >= PageCeiling

Min(a, b) == IF a < b THEN a ELSE b

\* mutant: the watermark is written day first, `dd-mm-yyyy`
DatePrefixDayFirst(pub) ==
    SubSeq(pub, 9, 10) \o "-" \o SubSeq(pub, 6, 7) \o "-" \o SubSeq(pub, 1, 4)

\* `docs[-1]['pub_date'][:10]`
DatePrefix(pub) == SubSeq(pub, 1, Min(DatePrefixLen, Len(pub)))

Init ==
    /\ batch_size \in 1..MaxBatch
    /\ current_date_lower_bound = InitialWatermark
    /\ page_num = 0
    /\ article_id_set = {}
    /\ q = <<>>
    /\ response_json = NoResponse
    /\ pc = "fetching"
    /\ batches = <<>>
    /\ arrival = <<>>
    /\ returned = {}
    /\ lastRequest = <<>>
    /\ faults = 0
    /\ maxAdded = 0
    /\ docFetches = 0
    /\ sleeps = <<>>
    /\ d_in = <<>>
    /\ flat = <<>>
    /\ fpc = "ready"
    /\ archive = <<>>

\* mutant: the page cursor is advanced before the fault is looked at
FetchFaultSkipsPage ==
    /\ pc = "fetching"
    /\ response_json' = FaultResponse
    /\ lastRequest' = Request
    /\ faults' = IF response_json.fault THEN faults + 1 ELSE 1
    /\ sleeps' = <<FaultDelay>>
    /\ page_num' = page_num + 1
    /\ UNCHANGED <<fvars, archive, batch_size, current_date_lower_bound, article_id_set,
                   q, pc, batches, arrival, returned, maxAdded, docFetches>>

\* mutant: the fault branch does not `continue` past the sleep at the loop's end
FetchFaultThenCooldown ==
    /\ pc = "fetching"
    /\ response_json' = FaultResponse
    /\ lastRequest' = Request
    /\ faults' = IF response_json.fault THEN faults + 1 ELSE 1
    /\ sleeps' = <<FaultDelay, Cooldown>>
    /\ UNCHANGED <<fvars, archive, batch_size, current_date_lower_bound, page_num, article_id_set,
                   q, pc, batches, arrival, returned, maxAdded, docFetches>>

\* lines 83-86: a fault response; sleep and retry
FetchFault ==
    /\ pc = "fetching"
    /\ response_json' = FaultResponse
    /\ lastRequest' = Request
    /\ faults' = IF response_json.fault THEN faults + 1 ELSE 1
    /\ sleeps' = <<FaultDelay>>
    /\ UNCHANGED <<fvars, archive, batch_size, current_date_lower_bound, page_num, article_id_set,
                   q, pc, batches, arrival, returned, maxAdded, docFetches>>

\* lines 87-89: status ERROR; break
FetchError ==
    /\ pc = "fetching"
    /\ response_json' = ErrorResponse
    /\ lastRequest' = Request
    /\ faults' = IF response_json.fault THEN faults ELSE 0
    /\ sleeps' = <<>>
    /\ pc' = "done"
    /\ UNCHANGED <<fvars, archive, batch_size, current_date_lower_bound, page_num, article_id_set,
                   q, batches, arrival, returned, maxAdded, docFetches>>

\* mutant: zero hits is slept on and fetched again
FetchZeroHitsRetries ==
    /\ pc = "fetching"
    /\ response_json' = ZeroResponse
    /\ lastRequest' = Request
    /\ faults' = IF response_json.fault THEN faults ELSE 0
    /\ sleeps' = <<Cooldown>>
    /\ UNCHANGED <<fvars, archive, batch_size, current_date_lower_bound, page_num, article_id_set,
                   q, pc, batches, arrival, returned, maxAdded, docFetches>>

\* lines 90-92: zero hits; break
FetchZeroHits ==
    /\ pc = "fetching"
    /\ response_json' = ZeroResponse
    /\ lastRequest' = Request
    /\ faults' = IF response_json.fault THEN faults ELSE 0
    /\ sleeps' = <<>>
    /\ pc' = "done"
    /\ UNCHANGED <<fvars, archive, batch_size, current_date_lower_bound, page_num, article_id_set,
                   q, batches, arrival, returned, maxAdded, docFetches>>

\* lines 94-107: a response with hits > 0: dedup into q, advance the page or the
\* watermark, yield one batch if q holds batch_size records, else sleep
FetchPage(docs, hits) ==
    \E d \in {Dedup(docs, article_id_set, q)} :   \* the loop of lines 94-97, run once
    LET added   == SubSeq(d.q, Len(q) + 1, Len(d.q))
        page1   == page_num + 1
        raises  == AtCeiling(page1) /\ docs = <<>>
        yields  == ~raises /\ ShouldYield(d.q, batch_size)
    IN  /\ pc = "fetching"
        /\ response_json' = PageResponse(docs, hits)
        /\ lastRequest' = Request
        /\ faults' = IF response_json.fault THEN faults ELSE 0
        /\ article_id_set' = d.seen
        /\ arrival' = arrival \o [i \in 1..Len(added) |-> Get(added[i], "_id").leaf]
        /\ returned' = returned \cup {IdOf(docs[i]) : i \in 1..Len(docs)}
        /\ maxAdded' = IF Len(added) > maxAdded THEN Len(added) ELSE maxAdded
        /\ docFetches' = (docFetches + 1) % PageCeiling
        /\ IF raises
           THEN \* docs[-1] of an empty list: IndexError
                /\ page_num' = page1
                /\ UNCHANGED current_date_lower_bound
           ELSE IF AtCeiling(page1)
           THEN /\ current_date_lower_bound' =
                       DatePrefix(Get(docs[Len(docs)], "pub_date").leaf)
                /\ page_num' = 0
           ELSE /\ page_num' = page1
                /\ UNCHANGED current_date_lower_bound
        /\ IF raises
           THEN /\ pc' = "raised"
                /\ q' = d.q
                /\ sleeps' = <<>>
                /\ UNCHANGED batches
           ELSE IF yields
           THEN /\ pc' = "yielded"
                /\ batches' = Append(batches, getn(d.q, batch_size))
                /\ q' = AfterGetn(d.q, batch_size)
                /\ sleeps' = <<>>
           ELSE /\ pc' = "fetching"
                /\ q' = d.q
                /\ sleeps' = <<Cooldown>>
                /\ UNCHANGED batches
        /\ UNCHANGED <<fvars, archive, batch_size>>

FetchDocs(docs) == FetchPage(docs, DocsResponse(docs).hits)

\* line 107 after the consumer pulls again: sleep, back to the top of the loop
Resume ==
    /\ pc = "yielded"
    /\ pc' = "fetching"
    /\ sleeps' = Append(sleeps, Cooldown)
    /\ UNCHANGED <<fvars, archive, batch_size, current_date_lower_bound, page_num, article_id_set,
                   q, response_json, batches, arrival, returned, lastRequest,
                   faults, maxAdded, docFetches>>

\* one pass of the loop, or the consumer's next pull; runs of at most MaxFaults
\* consecutive faults and at most MaxPage documents-bearing fetches
Next ==
    \/ (faults < MaxFaults \/ ~response_json.fault) /\ FetchFault
    \/ FetchError
    \/ FetchZeroHits
    \/ \E p \in Pages :
          /\ page_num < MaxPage
          /\ InOrder(p, Cardinality(returned))
          /\ FetchDocs(DocsOf(p))
    \/ Resume

Spec == Init /\ [][Next]_vars

\* Long runs against a small source: the page cursor runs through every offset
\* and the watermark advances.  The source holds the articles 1..SteadyIds and
\* returns pages of at most two documents, which may list an article twice.
SteadyIds == 2
SteadyPages == SeqsUpTo(1..SteadyIds, 2)

NextPages ==
    \/ ~response_json.fault /\ FetchFault
    \/ FetchError
    \/ FetchZeroHits
    \/ \E p \in SteadyPages :
          /\ InOrder(p, Cardinality(returned))
          /\ FetchDocs(DocsOf(p))
    \/ Resume

SpecPages == Init /\ [][NextPages]_vars

\* ------------------------------------------------- a run against one source
\* The source holds a finite archive, oldest first, and answers a request with
\* the documents of the archive that pass `fq=pub_date:>=<watermark>`, in pages
\* of SourcePageSize; hits is the number of documents that pass the filter,
\* whatever the page; a page past their end is empty.
SourcePageSize == 1
MaxPerDay == 1

\* a documents of the first day, then b documents of the second
ArchiveOf(a, b) ==
    [i \in 1..(a + b) |-> IF i <= a THEN 2 * i - 1 ELSE 2 * (i - a)]

\* the first day has few documents, or as many as a window of pages can list
DayCounts == (0..MaxPerDay) \cup {PageCeiling * SourcePageSize}
Archives == {ArchiveOf(a, b) : a \in DayCounts, b \in 0..MaxPerDay}

Matching(w) ==
    LET Passes(i) == LexLeq(w, PubDate(i))
    IN  SelectSeq(archive, Passes)

SourcePage(w, p) ==
    LET m    == Matching(w)
        from == p * SourcePageSize + 1
        to   == Min((p + 1) * SourcePageSize, Len(m))
    IN  IF from > to THEN <<>> ELSE [j \in 1..(to - from + 1) |-> Doc(m[from + j - 1])]

InitSource ==
    /\ batch_size \in 1..MaxBatch
    /\ current_date_lower_bound = InitialWatermark
    /\ page_num = 0
    /\ article_id_set = {}
    /\ q = <<>>
    /\ response_json = NoResponse
    /\ pc = "fetching"
    /\ batches = <<>>
    /\ arrival = <<>>
    /\ returned = {}
    /\ lastRequest = <<>>
    /\ faults = 0
    /\ maxAdded = 0
    /\ docFetches = 0
    /\ sleeps = <<>>
    /\ d_in = <<>>
    /\ flat = <<>>
    /\ fpc = "ready"
    /\ archive \in Archives

\* the source answers the request of this pass
SourceZeroHits ==
    /\ Len(Matching(current_date_lower_bound)) = 0
    /\ FetchZeroHits

SourceDocs ==
    \E docs \in {SourcePage(current_date_lower_bound, page_num)} :
    \E hits \in {Len(Matching(current_date_lower_bound))} :
        /\ hits > 0
        /\ FetchPage(docs, hits)

\* the source may fault, never twice in a row
NextSource ==
    \/ ~response_json.fault /\ FetchFault
    \/ SourceZeroHits
    \/ SourceDocs
    \/ Resume

\* the loop goes on, the consumer pulls again after every batch
SpecSource == InitSource /\ [][NextSource]_vars /\ WF_vars(NextSource)

\* ------------------------------------------------- a direct call of flatten
\* Nested mappings flatten is given: at most MaxEntries keys over all levels.
MaxEntries == 3
FlatKeys == {"", "a", "a.a"}
LeafValues == {"x", "y"}

RECURSIVE DictsOfSize(_)
\* the values that take c of the entries: a leaf or an empty mapping takes one
ValuesOfCost(c) ==
    (IF c = 1 THEN {Leaf(x) : x \in LeafValues} ELSE {})
        \cup {Node(m) : m \in DictsOfSize(c - 1)}

\* the dicts with exactly n keys over all levels
DictsOfSize(n) ==
    IF n = 0 THEN {<<>>}
    ELSE UNION {
            {<<<<t[1], t[2]>>>> \o t[3] :
                t \in {u \in FlatKeys \X ValuesOfCost(c) \X DictsOfSize(n - c) :
                          u[1] \notin Keys(u[3])}}
            : c \in 1..n}

Mappings == UNION {DictsOfSize(n) : n \in 0..MaxEntries}

InitFlatten ==
    /\ batch_size = 1
    /\ current_date_lower_bound = InitialWatermark
    /\ page_num = 0
    /\ article_id_set = {}
    /\ q = <<>>
    /\ response_json = NoResponse
    /\ pc = "fetching"
    /\ batches = <<>>
    /\ arrival = <<>>
    /\ returned = {}
    /\ lastRequest = <<>>
    /\ faults = 0
    /\ maxAdded = 0
    /\ docFetches = 0
    /\ sleeps = <<>>
    /\ d_in \in Mappings
    /\ flat = <<>>
    /\ fpc = "ready"
    /\ archive = <<>>

\* lines 45-54: flatten(d)
CallFlatten ==
    /\ fpc = "ready"
    /\ flat' = flatten(d_in, "")
    /\ fpc' = "flattened"
    /\ UNCHANGED <<gvars, d_in, archive>>

NextFlatten == CallFlatten

SpecFlatten == InitFlatten /\ [][NextFlatten]_vars

\* ------------------------------------------------------------------ claims
RECURSIVE Concat(_)
Concat(ss) == IF ss = <<>> THEN <<>> ELSE ss[1] \o Concat(Tail(ss))

\* the ids of the records yielded so far, in the order of emission
EmittedIds ==
    LET recs == Concat(batches)
    IN  [i \in 1..Len(recs) |-> Get(recs[i], "_id").leaf]

Range(f) == {f[i] : i \in DOMAIN f}
Position(f, x) == CHOOSE i \in DOMAIN f : f[i] = x

\* The response received by a step taken at the top of the loop is response_json'.
IsFault(r)    == r.fault
IsTerminal(r) == ~r.fault /\ (r.status = "ERROR" \/ (r.status = "OK" /\ r.hits = 0))
IsDocs(r)     == ~r.fault /\ r.status = "OK" /\ r.hits > 0

\* C1: no record id occurs twice in the records yielded by one run, neither
\* within a batch nor in two batches, whatever ids the pages repeat and whether
\* or not the watermark has advanced.
C1_Dedup ==
    \A i, j \in 1..Len(EmittedIds) : EmittedIds[i] = EmittedIds[j] => i = j

\* the watermark has advanced, two batches are out, and the last page repeated
\* an id that the first batch had already delivered
C1_Witness ==
    /\ current_date_lower_bound # InitialWatermark
    /\ Len(batches) >= 2
    /\ \E j \in 1..Len(response_json.docs) :
          IdOf(response_json.docs[j]) \in {Get(r, "_id").leaf : r \in Range(batches[1])}

\* C2: the records of all batches, in emission order, are in the order in which
\* they were appended to the buffer, and each batch is the oldest end of the
\* buffer.
C2_FIFO ==
    /\ \A i, j \in 1..Len(EmittedIds) :
          i < j => Position(arrival, EmittedIds[i]) < Position(arrival, EmittedIds[j])
    /\ EmittedIds = SubSeq(arrival, 1, Len(EmittedIds))

\* C3: every batch yielded has exactly batch_size records, and an emission takes
\* exactly that many records out of the buffer (what was appended is what is
\* buffered plus batch_size per batch).
C3_BatchSize ==
    /\ \A b \in 1..Len(batches) : Len(batches[b]) = batch_size
    /\ Len(arrival) = Len(q) + Len(batches) * batch_size

\* a batch of more than one record was yielded while the buffer kept a record
C3_Witness ==
    /\ batch_size = 2
    /\ Len(batches) >= 1
    /\ Len(q) = 1

\* C4: when the run has ended, every id the source returned has been yielded in
\* exactly one batch.
C4_ExactlyOnce ==
    pc = "done" =>
        /\ returned = Range(EmittedIds)
        /\ \A i, j \in 1..Len(EmittedIds) : EmittedIds[i] = EmittedIds[j] => i = j

\* C5: a response with an error status or with zero hits ends the run in that
\* step, with no batch yielded and no error raised, and an ended run takes no
\* further step (no fetch, no batch).
C5_TerminalClean ==
    [][ /\ pc # "done"
        /\ (pc = "fetching" /\ IsTerminal(response_json'))
              => (pc' = "done" /\ batches' = batches) ]_vars

\* zero hits on the very first fetch: the run is over with no batch
C5_Witness ==
    /\ pc = "done"
    /\ response_json = ZeroResponse
    /\ lastRequest = <<InitialWatermark, 0>>
    /\ docFetches = 0
    /\ faults = 0
    /\ batches = <<>>

\* C6: when, after any number of faults, a page of batch_size distinct unseen
\* documents arrives, that step yields exactly one batch, of exactly those
\* documents, each once, and what was buffered before stays buffered.
C6_FaultRetry ==
    [][ ( /\ pc = "fetching"
          /\ IsDocs(response_json')
          /\ Len(response_json'.docs) = batch_size
          /\ \A i, j \in 1..batch_size :
                /\ IdOf(response_json'.docs[i]) \notin article_id_set
                /\ IdOf(response_json'.docs[i]) = IdOf(response_json'.docs[j]) => i = j )
        => ( /\ pc' = "yielded"
             /\ Len(batches') = Len(batches) + 1
             /\ Len(batches'[Len(batches')]) = batch_size
             /\ {Get(r, "_id").leaf : r \in Range(batches'[Len(batches')])}
                   = {IdOf(response_json'.docs[i]) : i \in 1..batch_size}
             /\ q' = q ) ]_vars

\* two faults, then a page of batch_size new documents: one batch of them
C6_Witness ==
    /\ faults = 2
    /\ IsDocs(response_json)
    /\ batch_size = 2
    /\ Len(batches) = 1
    /\ docFetches = 1
    /\ {Get(r, "_id").leaf : r \in Range(batches[1])}
          = {IdOf(response_json.docs[i]) : i \in 1..Len(response_json.docs)}
    /\ q = <<>>

\* C7: a fault step leaves the buffer, the seen ids, the watermark, the page
\* cursor and the batches as they were, sleeps the fault delay, and the request
\* built next is the one that faulted.
C7_FaultFrame ==
    [][ (pc = "fetching" /\ IsFault(response_json'))
        => ( /\ UNCHANGED <<q, article_id_set, current_date_lower_bound, page_num,
                           batches, pc>>
             /\ sleeps' = <<FaultDelay>>
             /\ <<current_date_lower_bound', page_num'>> = lastRequest' ) ]_vars

\* a fault in the middle of a run: records buffered, pages fetched
C7_Witness ==
    /\ IsFault(response_json)
    /\ q # <<>>
    /\ page_num > 0
    /\ lastRequest = <<current_date_lower_bound, page_num>>

\* C8: on a fetch that brings documents the watermark is set only when the fetch
\* is the hundredth of its window (page offset 99): then it becomes the first
\* ten characters of the last document's pub_date and the page cursor returns to
\* 0; on any other such fetch the watermark stays and the page cursor grows by
\* one.  No other step changes either, and the watermark changes only when the
\* count of documents-bearing fetches reaches a multiple of 100.
C8_Watermark ==
    [][ /\ (pc = "fetching" /\ IsDocs(response_json') /\ response_json'.docs # <<>>)
           => IF page_num = 99
              THEN /\ current_date_lower_bound' =
                        SubSeq(Get(response_json'.docs[Len(response_json'.docs)],
                                   "pub_date").leaf, 1, 10)
                   /\ page_num' = 0
              ELSE /\ current_date_lower_bound' = current_date_lower_bound
                   /\ page_num' = page_num + 1
        /\ current_date_lower_bound' # current_date_lower_bound
              => (IsDocs(response_json') /\ docFetches = 99 /\ docFetches' = 0)
        /\ ~(pc = "fetching" /\ IsDocs(response_json'))
              => UNCHANGED <<current_date_lower_bound, page_num>> ]_vars

\* the watermark has been advanced twice, to different days
C8_Witness ==
    /\ current_date_lower_bound = "2021-08-02"
    /\ lastRequest = <<"2021-08-01", 99>>
    /\ page_num = 0
    /\ docFetches = 0

\* C9: as long as no loop pass has appended more than batch_size records, the
\* batches yielded number floor(N / batch_size) and the buffer holds
\* N mod batch_size records, N being the number of records appended so far.
C9_CarryOver ==
    maxAdded <= batch_size =>
        /\ Len(batches) = Len(arrival) \div batch_size
        /\ Len(q) = Len(arrival) % batch_size

\* passes of 2 and 1 records (or 1, 1, 1) at batch size 2: one batch, one record kept
C9_Witness ==
    /\ batch_size = 2
    /\ Len(arrival) = 3
    /\ maxAdded <= 2
    /\ Len(batches) = 1
    /\ Len(q) = 1

\* the leaves of a mapping, each with the keys on its path from the root
RECURSIVE LeafPaths(_, _)
LeafPaths(d, prefix) ==
    UNION {IF IsMapping(d[i][2])
           THEN LeafPaths(d[i][2].map, Append(prefix, d[i][1]))
           ELSE {<<Append(prefix, d[i][1]), d[i][2]>>}
           : i \in 1..Len(d)}

RECURSIVE JoinDots(_)
JoinDots(path) ==
    IF Len(path) = 1 THEN path[1] ELSE path[1] \o "." \o JoinDots(Tail(path))

HasDot(k) == \E i \in 1..Len(k) : SubSeq(k, i, i) = "."

\* key.split('.')
RECURSIVE SplitDots(_)
SplitDots(k) ==
    IF ~HasDot(k) THEN <<k>>
    ELSE LET i == CHOOSE i \in 1..Len(k) :
                     /\ SubSeq(k, i, i) = "."
                     /\ \A j \in 1..(i - 1) : SubSeq(k, j, j) # "."
         IN  <<SubSeq(k, 1, i - 1)>> \o SplitDots(SubSeq(k, i + 1, Len(k)))

RECURSIVE AllKeys(_)
AllKeys(d) ==
    Keys(d) \cup UNION {IF IsMapping(d[i][2]) THEN AllKeys(d[i][2].map) ELSE {}
                        : i \in 1..Len(d)}

RECURSIVE NoEmptyBranch(_)
NoEmptyBranch(d) ==
    \A i \in 1..Len(d) :
        IsMapping(d[i][2]) => (d[i][2].map # <<>> /\ NoEmptyBranch(d[i][2].map))

NoDotKey(d) == \A k \in AllKeys(d) : ~HasDot(k)

NoCollision(d) ==
    \A s, t \in LeafPaths(d, <<>>) : JoinDots(s[1]) = JoinDots(t[1]) => s = t

\* d[k] = v
SetKey(d, k, v) ==
    IF k \in Keys(d)
    THEN [i \in 1..Len(d) |-> IF d[i][1] = k THEN <<k, v>> ELSE d[i]]
    ELSE Append(d, <<k, v>>)

\* re-nesting: walk the split key down from the root, making the mappings on the
\* way, and set the last part to the value
RECURSIVE PutPath(_, _, _)
PutPath(d, path, v) ==
    IF Len(path) = 1 THEN SetKey(d, path[1], v)
    ELSE LET sub == IF path[1] \in Keys(d) /\ IsMapping(Get(d, path[1]))
                    THEN Get(d, path[1]).map ELSE <<>>
         IN  SetKey(d, path[1], Node(PutPath(sub, Tail(path), v)))

RECURSIVE Nest(_)
Nest(f) ==
    IF f = <<>> THEN <<>>
    ELSE LET n == Len(f)
         IN  PutPath(Nest(SubSeq(f, 1, n - 1)), SplitDots(f[n][1]), f[n][2])

\* equality of dicts: the same keys with equal values, in whatever order
RECURSIVE DictEq(_, _)
DictEq(a, b) ==
    /\ Keys(a) = Keys(b)
    /\ \A k \in Keys(a) :
          LET u == Get(a, k)
              v == Get(b, k)
          IN  IF IsMapping(u) /\ IsMapping(v) THEN DictEq(u.map, v.map)
              ELSE ~IsMapping(u) /\ ~IsMapping(v) /\ u = v

\* C10: for a mapping with no empty-mapping branch, no key that contains '.' and
\* no two paths with the same dot-joined key, flatten returns exactly one entry
\* per leaf, keyed by the dot-joined path with the leaf's value, and re-nesting
\* the result gives the mapping back.
C10_RoundTrip ==
    (fpc = "flattened" /\ NoEmptyBranch(d_in) /\ NoDotKey(d_in) /\ NoCollision(d_in))
    => /\ Range(flat) = {<<JoinDots(s[1]), s[2]>> : s \in LeafPaths(d_in, <<>>)}
       /\ Len(flat) = Cardinality(LeafPaths(d_in, <<>>))
       /\ DictEq(Nest(flat), d_in)

\* The round trip of C10 does hold for the mappings none of whose keys is the
\* empty string.
RoundTripNonEmptyKeys ==
    ( /\ fpc = "flattened" /\ NoEmptyBranch(d_in) /\ NoDotKey(d_in)
      /\ NoCollision(d_in) /\ "" \notin AllKeys(d_in) )
    => /\ Range(flat) = {<<JoinDots(s[1]), s[2]>> : s \in LeafPaths(d_in, <<>>)}
       /\ Len(flat) = Cardinality(LeafPaths(d_in, <<>>))
       /\ DictEq(Nest(flat), d_in)

\* C11: whenever getDataBatch is about to fetch, the buffer holds strictly fewer
\* than batch_size records (the emitting phase has yielded every full batch).
C11_Drained ==
    pc = "fetching" => Len(q) < batch_size

\* C12: whenever a request that is not the first is about to be sent, exactly
\* one delay has been slept since the previous request: the cooldown of the
\* loop's end after a response with documents (whether or not a batch was
\* yielded in between), and the fault branch's delay alone after a fault.
C12_Pacing ==
    (pc = "fetching" /\ lastRequest # <<>>) =>
        /\ Len(sleeps) = 1
        /\ IsFault(response_json) => sleeps = <<FaultDelay>>
        /\ IsDocs(response_json) => sleeps = <<Cooldown>>
        /\ IsFault(response_json) \/ IsDocs(response_json)

\* a batch was yielded and taken, the cooldown slept, and the request after it
\* got a fault, after which the fault delay alone has been slept
C12_Witness ==
    /\ pc = "fetching"
    /\ Len(batches) >= 1
    /\ IsFault(response_json)
    /\ sleeps = <<FaultDelay>>
    /\ q # <<>>

\* C14: no pull of the generator raises: whatever fault, error status, zero-hit
\* or document responses arrive (document lists empty or not, at any page
\* offset), the run is fetching, handing out a batch, or has ended.
C14_NoRaise ==
    pc # "raised"

\* C15: every request carries a page offset in 0..99; the first request of a
\* run carries 0; and the first request that carries a watermark other than
\* the previous request's carries 0.
C15_PageCursor ==
    [][ pc = "fetching" =>
          /\ lastRequest' = <<current_date_lower_bound, page_num>>
          /\ page_num \in 0..(PageCeiling - 1)
          /\ lastRequest = <<>> => page_num = 0
          /\ (lastRequest # <<>> /\ lastRequest[1] # current_date_lower_bound)
                => page_num = 0 ]_vars

\* a request with offset 0 has been sent under an advanced watermark, after one
\* with offset 99 under the previous one
C15_Witness ==
    /\ lastRequest # <<>>
    /\ lastRequest[1] # InitialWatermark
    /\ lastRequest[2] = 0
    /\ docFetches = 1

\* C17: every buffered record's id is in the seen set, no id is buffered twice,
\* no buffered id has been emitted, and every id ever buffered or emitted is in
\* the seen set.
C17_BufferSeen ==
    LET QIds == [i \in 1..Len(q) |-> Get(q[i], "_id").leaf]
    IN  /\ Range(QIds) \subseteq article_id_set
        /\ \A i, j \in 1..Len(QIds) : QIds[i] = QIds[j] => i = j
        /\ Range(QIds) \cap Range(EmittedIds) = {}
        /\ Range(arrival) \subseteq article_id_set
        /\ Range(EmittedIds) \subseteq article_id_set
        /\ Range(arrival) = Range(QIds) \cup Range(EmittedIds)

\* a record is buffered, another has been emitted, and the last page repeated
\* both of them
C17_Witness ==
    /\ q # <<>>
    /\ batches # <<>>
    /\ Len(response_json.docs) >= 2
    /\ \A j \in 1..Len(response_json.docs) :
          IdOf(response_json.docs[j]) \in Range(SubSeq(arrival, 1, Len(arrival) - 1))
    /\ \E j \in 1..Len(response_json.docs) :
          IdOf(response_json.docs[j]) \in Range(EmittedIds)
    /\ \E j \in 1..Len(response_json.docs) :
          IdOf(response_json.docs[j]) = Get(q[1], "_id").leaf

\* C18 as claimed: the delay slept after a fault is strictly shorter than the
\* cooldown slept at the end of a loop pass.
C18_FaultShorter ==
    (pc = "fetching" /\ IsFault(response_json)) =>
        (Len(sleeps) = 1 /\ sleeps[1] < Cooldown)

\* C18: the delay slept after a fault is exactly as long as the cooldown slept
\* at the end of a loop pass; neither is shorter than the other.
C18_SameDelay ==
    (pc = "fetching" /\ IsFault(response_json)) =>
        (Len(sleeps) = 1 /\ sleeps[1] = Cooldown)

\* two faults in a row, the fault delay slept after the second
C18_Witness ==
    /\ pc = "fetching"
    /\ IsFault(response_json)
    /\ faults = 2
    /\ sleeps = <<FaultDelay>>

\* C16: the watermark is '0000-01-01' until the first request, and a step whose
\* response holds only documents with pub_date >= the watermark requested
\* leaves the watermark at a value >= the one it had.
C16_Monotone ==
    [][ /\ lastRequest = <<>> => current_date_lower_bound = InitialWatermark
        /\ HonoursFilter(response_json', current_date_lower_bound)
              => LexLeq(current_date_lower_bound, current_date_lower_bound') ]_vars

\* the watermark went from the first day to the second on a page of offset 99
\* whose documents are all of the first day or later
C16_Witness ==
    /\ lastRequest # <<>>
    /\ lastRequest[1] # InitialWatermark
    /\ lastRequest[2] = PageCeiling - 1
    /\ current_date_lower_bound # lastRequest[1]
    /\ LexLeq(lastRequest[1], current_date_lower_bound)
    /\ HonoursFilter(response_json, lastRequest[1])

\* the values of d are all empty mappings
OnlyEmptyMappings(d) ==
    \A i \in 1..Len(d) : IsMapping(d[i][2]) /\ d[i][2].map = <<>>

\* C19: flatten returns exactly one entry per non-mapping leaf, keyed by the
\* dot-joined path of the leaf, and nothing for a key whose value is an empty
\* mapping, at any depth; a mapping whose values are all empty mappings is
\* flattened to the empty mapping. (Stated for the mappings no two leaves of
\* which have the same dot-joined path; what fails here fails for all mappings.)
C19_EmptyBranches ==
    (fpc = "flattened" /\ NoCollision(d_in))
    => /\ Range(flat) = {<<JoinDots(s[1]), s[2]>> : s \in LeafPaths(d_in, <<>>)}
       /\ Len(flat) = Cardinality(LeafPaths(d_in, <<>>))
       /\ OnlyEmptyMappings(d_in) => flat = <<>>

\* The statement of C19 does hold for the mappings none of whose keys is the
\* empty string.
EmptyBranchesNonEmptyKeys ==
    (fpc = "flattened" /\ NoCollision(d_in) /\ "" \notin AllKeys(d_in))
    => /\ Range(flat) = {<<JoinDots(s[1]), s[2]>> : s \in LeafPaths(d_in, <<>>)}
       /\ Len(flat) = Cardinality(LeafPaths(d_in, <<>>))
       /\ OnlyEmptyMappings(d_in) => flat = <<>>

\* an empty mapping next to a leaf, and one under a key, are both dropped
EmptyBranchesSeen ==
    /\ fpc = "flattened"
    /\ "" \notin AllKeys(d_in)
    /\ ~NoEmptyBranch(d_in)
    /\ Len(flat) >= 1
    /\ \E i \in 1..Len(d_in) :
          IsMapping(d_in[i][2]) /\ d_in[i][2].map # <<>> /\ ~NoEmptyBranch(d_in[i][2].map)

\* the run ends, be it by the end of the sequence or by an exception
RunEnds == <>(pc \in {"done", "raised"})

\* the documents-bearing fetches of a window of pages number at most the
\* documents the source holds, plus one that finds the page past their end
FetchesBounded == [](docFetches <= Len(archive) + 1)

\* Against a source that holds a document the run never ends by the end of the
\* results: the watermark is the day of a document the source holds, and that
\* document passes the filter, so hits is never 0.
NeverEndOfResults ==
    archive # <<>> => (pc # "done" /\ Len(Matching(current_date_lower_bound)) > 0)

\* C13: against a finite source that lists its documents oldest first in pages
\* of bounded size, filters by pub_date >= watermark, reports as hits the
\* number of documents that pass the filter and does not fault forever, a run
\* whose consumer keeps pulling eventually ends, and the number of its fetches
\* is bounded by the number of documents the source holds.
C13_Terminates ==
    RunEnds /\ FetchesBounded

====
